---- MODULE Spec2Model ----
(***************************************************************************)
(* Model of the WhatsApp service class (src/src/services/WhatsApp.ts):     *)
(* the lifecycle listeners, the qr prompt handler, the inbound "message"   *)
(* handler, the queue completed/failed handlers and the unread timer.      *)
(* Every `await` of a handler is a suspension point: the code between two  *)
(* awaits is one action, and the handlers interleave at those points.      *)
(***************************************************************************)
EXTENDS Integers, Sequences, FiniteSets, TLC

\* ------------------------------------------------------------------ bounds
MaxSignals == 4      \* lifecycle signals the transport emits in one run
MaxQr == 2           \* "qr" events (one handler invocation each)
MaxTicks == 2        \* firings of the 15 s interval timer
MaxUnread == 1       \* largest unreadCount a chat reports
MaxMsgs == 2         \* inbound "message" events
MaxLinks == 2        \* links carried by one message
MaxWindows == 2      \* rate-limit windows that elapse
MaxEvents == 2       \* queue events (completed / failed) delivered
MaxArtifacts == 2    \* artifacts in one job result
MaxHistory == 3      \* messages in one chat's fetched history

\* ------------------------------------------------- program constants
RateCapacity == 1    \* admissions per identity and window (Rate Limiter)

Senders == {"A", "B"}
Convs == {"c1", "c2"}
Mimetypes == {"image/jpeg", "image/png", "video/mp4"}
ChatKinds == {"chat", "group", "readonly"}
Signals == {"authenticated", "auth_failure", "disconnected", "ready"}
Listeners == {"message", "queue", "broadcast", "call", "timer"}
TelemetryEvents ==
    {"whatsapp_authenticated", "whatsapp_authenticated_failure",
     "whatsapp_disconnected", "whatsapp_ready",
     "qrcode_authentication_completed", "message_received",
     "sticker_created", "rate_limited", "download_requested",
     "download_response", "error_onQueueMessage"}

VARIABLES
    \* --- WhatsApp instance and its transport
    isAuthenticated,   \* WhatsApp.isAuthenticated
    readyArmed,        \* the client.once("ready") listener is still installed
    lifecycle,         \* last lifecycle signal the transport emitted ("INIT" before any)
    signals,           \* number of lifecycle signals emitted so far
    listeners,         \* listeners / timers installed, by kind
    notified,          \* telegramService.sendMessage calls, by lifecycle signal
    suppressed,        \* auth_failure / disconnected was signalled and no ready since
    tracked,           \* analyticsService.trackEvent calls, by event_type / name
    \* --- QR prompt on the Notification Port
    QrCodeMessageId,   \* telegramService.QrCodeMessageId (0 = null)
    prompts,           \* QR prompt messages outstanding on the channel
    promptsSent,       \* prompts ever posted (ids are 1..promptsSent)
    deleteCalls,       \* telegramService.deleteMessage calls
    qr,                \* state of each "qr" handler invocation
    \* --- unread reconciliation
    unreadChats,       \* WhatsApp.unreadChats
    ticks,             \* timer firings so far
    passes,            \* getUnreadChats invocations so far
    inflight,          \* getUnreadChats invocations suspended at an await
    unreadMap,         \* the map the last completed getUnreadChats returned
    seen,              \* what that pass read: unreadCount and history per chat
    skipped,           \* getUnreadChats invocations that ended in the catch
    \* --- dispatch
    msg,               \* state of each inbound message and of its handler
    users,             \* User table: sequence of phones, id = position
    rlCount,           \* Rate Limiter: admissions per identity in this window
    window,            \* index of the current rate-limit window
    downloads,         \* Download table: sequence of records, id = position
    jobs,              \* jobs submitted to the downloader queue, in order
    \* --- queue events
    ev,                \* state of each queue event and of its handler
    errors             \* Error table: sequence of records

lifeVars == <<isAuthenticated, readyArmed, lifecycle, signals, listeners, notified,
              suppressed>>
qrVars == <<QrCodeMessageId, prompts, promptsSent, deleteCalls, qr>>
unreadVars == <<unreadChats, ticks, passes, inflight, unreadMap, seen, skipped>>
dispatchVars == <<msg, users, rlCount, window, downloads, jobs>>
queueVars == <<ev, errors>>
vars == <<lifeVars, tracked, qrVars, unreadVars, dispatchVars, queueVars>>

\* ------------------------------------------------------------- helpers
Inc(f, k) == [f EXCEPT ![k] = @ + 1]

RECURSIVE SumOver(_, _)
SumOver(f, S) ==
    IF S = {} THEN 0
    ELSE LET x == CHOOSE y \in S : TRUE IN f[x] + SumOver(f, S \ {x})

\* A call that the handler does not await: its promise settles later, and a
\* rejection reaches no catch of the handler.  `pending` counts the calls of
\* a handler that have not settled, `resolved` and `rejected` those that have.
Settled(r, ok) ==
    [r EXCEPT !.pending = @ - 1,
              !.resolved = IF ok THEN @ + 1 ELSE @,
              !.rejected = IF ok THEN @ ELSE @ + 1]

\* Invocation i of a handler starts after invocation i - 1 has started.
InOrder(f, i) == IF i = 1 THEN TRUE ELSE f[i - 1].pc # "idle"

IdleQr == [pc |-> "idle", id |-> 0]
IdleMsg ==
    [pc |-> "idle", kind |-> "chat", sender |-> "A", media |-> "none",
     links |-> <<>>, timestamp |-> 0, userId |-> 0, rl |-> "none", win |-> 0,
     nRl |-> 0, nRec |-> 0, nJob |-> 0, nNotice |-> 0, nSticker |-> 0,
     out |-> "none", pending |-> 0, resolved |-> 0, rejected |-> 0]
IdleEv ==
    [pc |-> "idle", type |-> "none", job |-> 0, k |-> 0, index |-> 0,
     nReply |-> 0, nRemove |-> 0, nSent |-> 0, nErr |-> 0, threw |-> FALSE,
     pending |-> 0, resolved |-> 0, rejected |-> 0]

\* State after `new WhatsApp()` and initialize(): only the lifecycle and
\* "qr" listeners of setupWhatsAppEventHandlers are installed.
Init ==
    /\ isAuthenticated = FALSE
    /\ readyArmed = TRUE
    /\ lifecycle = "INIT"
    /\ signals = 0
    /\ listeners = [l \in Listeners |-> 0]
    /\ notified = [s \in Signals |-> 0]
    /\ suppressed = FALSE
    /\ tracked = [t \in TelemetryEvents |-> 0]
    /\ QrCodeMessageId = 0
    /\ prompts = {}
    /\ promptsSent = 0
    /\ deleteCalls = 0
    /\ qr = [h \in 1..MaxQr |-> IdleQr]
    /\ unreadChats = 0
    /\ ticks = 0
    /\ passes = 0
    /\ inflight = 0
    /\ unreadMap = <<>>
    /\ skipped = 0
    /\ seen = [chats |-> [c \in Convs |-> 0], hist |-> [c \in Convs |-> <<>>]]
    /\ msg = [m \in 1..MaxMsgs |-> IdleMsg]
    /\ users = <<>>
    /\ rlCount = [s \in Senders |-> 0]
    /\ window = 1
    /\ downloads = <<>>
    /\ jobs = <<>>
    /\ ev = [e \in 1..MaxEvents |-> IdleEv]
    /\ errors = <<>>

\* ------------------------------------------------ unread reconciliation
\* getUnreadChats is called (not awaited by its callers): it suspends at
\* `await this.client.getChats()`.
GetUnreadChats ==
    /\ passes' = passes + 1
    /\ inflight' = inflight + 1

\* Faulty variant of the count: the chats with unread messages are counted,
\* not their messages.
UnreadTotalChats(chats) == Cardinality({c \in DOMAIN chats : chats[c] > 0})

\* count += chat.unreadCount, over the chats with unreadCount > 0
UnreadTotal(chats) == SumOver(chats, {c \in DOMAIN chats : chats[c] > 0})

ChatStates == [Convs -> 0..MaxUnread]

\* Unread counts as large as the longest history.
ChatStatesWide == [Convs -> 0..MaxHistory]

\* chat.fetchMessages({limit: Infinity}): the chat's messages, oldest first;
\* a message is named by its position in the chat.
Histories == {[i \in 1..n |-> i] : n \in 0..MaxHistory}

\* A history that holds the unread messages and nothing older.
UnreadOnly(chats) == [c \in Convs |-> [i \in 1..chats[c] |-> i]]

\* Array.prototype.reverse
Reverse(s) == [i \in 1..Len(s) |-> s[Len(s) + 1 - i]]

\* Array.prototype.slice(begin, end), 0 <= begin: the elements at the
\* 0-based positions begin .. end - 1 that exist.
Slice(s, begin, end) ==
    SubSeq(s, begin + 1, IF end < Len(s) THEN end ELSE Len(s))

\* The map a pass builds: one entry per chat with unreadCount > 0,
\* messages = fetchMessages(...).reverse().slice(0, chat.unreadCount).
HashMapOfNumbersAndUnreadMessages(chats, hist) ==
    [c \in {d \in Convs : chats[d] > 0} |->
        Slice(Reverse(hist[c]), 0, chats[c])]

\* ---------------------------------------------------- lifecycle listeners
\* client.on("authenticated")
Authenticated ==
    /\ signals < MaxSignals
    /\ signals' = signals + 1
    /\ lifecycle' = "authenticated"
    /\ isAuthenticated' = TRUE
    /\ tracked' = Inc(tracked, "whatsapp_authenticated")
    /\ notified' = Inc(notified, "authenticated")
    /\ UNCHANGED <<readyArmed, listeners, suppressed, qrVars, unreadVars, dispatchVars, queueVars>>

\* client.on("auth_failure")
AuthFailure ==
    /\ signals < MaxSignals
    /\ signals' = signals + 1
    /\ lifecycle' = "auth_failure"
    /\ isAuthenticated' = FALSE
    /\ tracked' = Inc(tracked, "whatsapp_authenticated_failure")
    /\ notified' = Inc(notified, "auth_failure")
    /\ suppressed' = TRUE
    /\ UNCHANGED <<readyArmed, listeners, qrVars, unreadVars, dispatchVars, queueVars>>

\* client.on("disconnected")
Disconnected ==
    /\ signals < MaxSignals
    /\ signals' = signals + 1
    /\ lifecycle' = "disconnected"
    /\ isAuthenticated' = FALSE
    /\ tracked' = Inc(tracked, "whatsapp_disconnected")
    /\ notified' = Inc(notified, "disconnected")
    /\ suppressed' = TRUE
    /\ UNCHANGED <<readyArmed, listeners, qrVars, unreadVars, dispatchVars, queueVars>>

\* setupMessageHandler, RegisterMessageCheck (onQueueMessage,
\* onTelegramMessage, setInterval) and registerBlockOnCalls each install one
\* listener.
RegisterAll(ls) ==
    [l \in Listeners |-> ls[l] + 1]

\* client.once("ready"): the listener removes itself, so it runs for the
\* first ready signal only.  RegisterMessageCheck starts the first
\* getUnreadChats pass.
Ready ==
    /\ signals < MaxSignals
    /\ readyArmed
    /\ signals' = signals + 1
    /\ lifecycle' = "ready"
    /\ readyArmed' = FALSE
    /\ isAuthenticated' = TRUE
    /\ notified' = Inc(notified, "ready")
    /\ suppressed' = FALSE
    /\ IF QrCodeMessageId # 0
       THEN /\ prompts' = prompts \ {QrCodeMessageId}
            /\ deleteCalls' = deleteCalls + 1
            /\ QrCodeMessageId' = 0
            /\ tracked' = Inc(Inc(tracked, "whatsapp_ready"),
                              "qrcode_authentication_completed")
       ELSE /\ tracked' = Inc(tracked, "whatsapp_ready")
            /\ UNCHANGED <<prompts, deleteCalls, QrCodeMessageId>>
    /\ listeners' = RegisterAll(listeners)
    /\ GetUnreadChats
    /\ UNCHANGED <<promptsSent, qr, unreadChats, ticks, unreadMap, seen,
                   skipped, dispatchVars, queueVars>>

\* A later ready signal finds no listener: nothing in the program runs.
ReadyAgain ==
    /\ signals < MaxSignals
    /\ ~readyArmed
    /\ signals' = signals + 1
    /\ lifecycle' = "ready"
    /\ suppressed' = FALSE
    /\ UNCHANGED <<isAuthenticated, readyArmed, listeners, notified, tracked,
                   qrVars, unreadVars, dispatchVars, queueVars>>

\* ------------------------------------------------------------ "qr" handler
\* client.on("qr"): imageSync, then saveFile is awaited.  The transport
\* shows a QR code only while it is not authenticated.
QrEvent(h) ==
    /\ qr[h].pc = "idle"
    /\ InOrder(qr, h)
    /\ lifecycle \notin {"authenticated", "ready"}
    /\ qr' = [qr EXCEPT ![h].pc = "save"]
    /\ UNCHANGED <<lifeVars, tracked, QrCodeMessageId, prompts, promptsSent,
                   deleteCalls, unreadVars, dispatchVars, queueVars>>

\* saveFile resolved: the handler reads QrCodeMessageId and calls
\* updateQRCode or sendQRcode, which it awaits.
QrSaved(h) ==
    /\ qr[h].pc = "save"
    /\ qr' = [qr EXCEPT ![h].pc = IF QrCodeMessageId # 0 THEN "update" ELSE "send"]
    /\ UNCHANGED <<lifeVars, tracked, QrCodeMessageId, prompts, promptsSent,
                   deleteCalls, unreadVars, dispatchVars, queueVars>>

\* saveFile, updateQRCode or sendQRcode rejected: the handler has no catch.
QrRejected(h) ==
    /\ qr[h].pc \in {"save", "update", "send"}
    /\ qr' = [qr EXCEPT ![h].pc = "failed"]
    /\ UNCHANGED <<lifeVars, tracked, QrCodeMessageId, prompts, promptsSent,
                   deleteCalls, unreadVars, dispatchVars, queueVars>>

\* updateQRCode resolved: the existing prompt was edited in place.
QrUpdated(h) ==
    /\ qr[h].pc = "update"
    /\ qr' = [qr EXCEPT ![h].pc = "done"]
    /\ UNCHANGED <<lifeVars, tracked, QrCodeMessageId, prompts, promptsSent,
                   deleteCalls, unreadVars, dispatchVars, queueVars>>

\* sendQRcode: the Notification Port posts the prompt; its message id
\* travels back to the suspended handler.
QrDelivered(h) ==
    /\ qr[h].pc = "send"
    /\ promptsSent' = promptsSent + 1
    /\ prompts' = prompts \cup {promptsSent + 1}
    /\ qr' = [qr EXCEPT ![h] = [pc |-> "sent", id |-> promptsSent + 1]]
    /\ UNCHANGED <<lifeVars, tracked, QrCodeMessageId, deleteCalls,
                   unreadVars, dispatchVars, queueVars>>

\* The handler resumes: QrCodeMessageId = await sendQRcode(...).
QrStored(h) ==
    /\ qr[h].pc = "sent"
    /\ QrCodeMessageId' = qr[h].id
    /\ qr' = [qr EXCEPT ![h].pc = "done"]
    /\ UNCHANGED <<lifeVars, tracked, prompts, promptsSent, deleteCalls,
                   unreadVars, dispatchVars, queueVars>>

\* ------------------------------------------------------------ unread timer
\* setInterval callback of RegisterMessageCheck.
TimerTick ==
    /\ listeners["timer"] > 0
    /\ ticks < MaxTicks
    /\ ticks' = ticks + 1
    /\ IF isAuthenticated THEN GetUnreadChats ELSE UNCHANGED <<passes, inflight>>
    /\ UNCHANGED <<lifeVars, tracked, qrVars, unreadChats, unreadMap, seen,
                   skipped, dispatchVars, queueVars>>

\* A pass ran to its end over `chats` (each conversation's unreadCount) and
\* `hist` (each conversation's fetched messages): the map is built and
\* returned, unreadChats is updated if the total changed.
UnreadPassDone(chats, hist) ==
    /\ inflight > 0
    /\ inflight' = inflight - 1
    /\ unreadMap' = HashMapOfNumbersAndUnreadMessages(chats, hist)
    /\ seen' = [chats |-> chats, hist |-> hist]
    /\ unreadChats' =
         IF UnreadTotal(chats) # unreadChats THEN UnreadTotal(chats) ELSE unreadChats
    /\ UNCHANGED <<lifeVars, tracked, qrVars, ticks, passes, skipped,
                   dispatchVars, queueVars>>

\* getChats or fetchMessages rejected: the catch logs the error.
UnreadPassFailed ==
    /\ inflight > 0
    /\ inflight' = inflight - 1
    /\ skipped' = skipped + 1
    /\ UNCHANGED <<lifeVars, tracked, qrVars, unreadChats, ticks, passes,
                   unreadMap, seen, dispatchVars, queueVars>>

\* ---------------------------------------------------------- collaborators
\* UserRepository.createOrUpdateUser: prisma upsert keyed by phone.
CreateOrUpdateUser(us, phone) ==
    IF \E i \in 1..Len(us) : us[i] = phone THEN us ELSE Append(us, phone)

UserIdOf(us, phone) == CHOOSE i \in 1..Len(us) : us[i] = phone

\* RateLimiterService.isRatedLimited(identity): limited once the identity
\* has used the window's capacity; an admitted call counts against it.
IsRatedLimited(identity) == rlCount[identity] >= RateCapacity

RateLimiterAfter(identity) ==
    IF IsRatedLimited(identity) THEN rlCount ELSE Inc(rlCount, identity)

\* DownloadRepository.create(url, "UNKNOWN", user.id, timestamp)
NewDownload(url, ownerId, timestamp) ==
    [sourceUrl |-> url, status |-> "UNKNOWN", ownerId |-> ownerId,
     requestedAt |-> timestamp]

\* Faulty variant of the id: the id the next record would get.
DownloadIdAhead(ds) == Len(ds) + 1

\* DownloadInDatabase.id: the id of the record that create just returned,
\* the newest of the table ds.
DownloadId(ds) == Len(ds)

\* ------------------------------------------------------ "message" handler
\* message.links of a message with n links: n distinct urls, in order.
LinksOf(n) == [i \in 1..n |-> i]

\* Faulty variant of the link test: links.length >= 0.
HasLinksAlways(links) == Len(links) >= 0

\* links.length > 0
HasLinks(links) == Len(links) > 0

\* Faulty variant of the url choice: the last link instead of the first.
LastUrl(links) == IF Len(links) > 0 THEN links[Len(links)] ELSE 0

\* urls[0] (undefined, here 0, when there is none)
FirstUrl(links) == IF Len(links) > 0 THEN links[1] ELSE 0

\* message.timestamp: the transport stamps the messages in arrival order.
Timestamp(m) == m

\* `${timestamp}-${userNumber}`
JobKey(timestamp, userNumber) == <<timestamp, userNumber>>

\* Faulty variant of the limited branch: the `return` is missing.
AfterLimiterNoReturn(limited) == "create"

\* if (isRateLimited) { ...; return; }
AfterLimiter(limited) == IF limited THEN "done" ELSE "create"

\* mimetype === "image/jpeg" || mimetype === "image/png"
IsStickerImage(mimetype) == mimetype \in {"image/jpeg", "image/png"}

Inbound ==
    [kind : ChatKinds, sender : Senders, media : {"none"} \cup Mimetypes,
     nlinks : 0..MaxLinks]

\* Link messages without media, from any kind of chat.
InboundLinks == {i \in Inbound : i.media = "none" /\ i.nlinks > 0}

\* One link, no media, a private chat: the messages that end as queue jobs.
InboundLinkOnly == {i \in InboundLinks : i.kind = "chat" /\ i.nlinks = 1}

\* Messages of one sender in a private chat, with or without media, with at
\* most one link.
InboundMedia ==
    {i \in Inbound : i.kind = "chat" /\ i.sender = "A" /\ i.nlinks <= 1}

\* One-link messages of one sender, from any kind of chat.
InboundAnyChat ==
    {i \in Inbound : i.sender = "A" /\ i.media = "none" /\ i.nlinks = 1}

\* Faulty variant of the link check: the Rate Limiter is not called and the
\* handler goes straight to the record creation.
LinkCheckNoLimiter(m, r) ==
    IF HasLinks(r.links)
    THEN /\ msg' = [msg EXCEPT ![m] = [r EXCEPT !.pc = "create"]]
         /\ UNCHANGED rlCount
    ELSE /\ msg' = [msg EXCEPT ![m] = [r EXCEPT !.pc = "done", !.out = "nolinks"]]
         /\ UNCHANGED rlCount

\* if (links.length > 0) { isRateLimited = await isRatedLimited(userNumber)
\* The handler reaches the link check with record r.  The limiter decides
\* when it is called; the handler reads the answer when it resumes.
LinkCheck(m, r) ==
    IF HasLinks(r.links)
    THEN /\ msg' = [msg EXCEPT ![m] =
                      [r EXCEPT !.pc = "rate",
                                !.rl = IF IsRatedLimited(r.sender)
                                       THEN "limited" ELSE "ok",
                                !.nRl = @ + 1,
                                !.win = window]]
         /\ rlCount' = RateLimiterAfter(r.sender)
    ELSE /\ msg' = [msg EXCEPT ![m] = [r EXCEPT !.pc = "done", !.out = "nolinks"]]
         /\ UNCHANGED rlCount

\* client.on("message"): the listener exists once setupMessageHandler ran;
\* the handler calls message.getChat() and suspends.
MessageEvent(m, in) ==
    /\ listeners["message"] > 0
    /\ msg[m].pc = "idle"
    /\ InOrder(msg, m)
    /\ msg' = [msg EXCEPT ![m] =
                 [IdleMsg EXCEPT !.pc = "getChat", !.kind = in.kind,
                                 !.sender = in.sender, !.media = in.media,
                                 !.links = LinksOf(in.nlinks),
                                 !.timestamp = Timestamp(m)]]
    /\ UNCHANGED <<lifeVars, tracked, qrVars, unreadVars, users, rlCount,
                   window, downloads, jobs, queueVars>>

\* getChat resolved: groups and read-only chats are ignored.
MsgChat(m) ==
    /\ msg[m].pc = "getChat"
    /\ msg' = [msg EXCEPT ![m] =
                 IF msg[m].kind \in {"group", "readonly"}
                 THEN [@ EXCEPT !.pc = "done", !.out = "ignored"]
                 ELSE [@ EXCEPT !.pc = "getContact"]]
    /\ UNCHANGED <<lifeVars, tracked, qrVars, unreadVars, users, rlCount,
                   window, downloads, jobs, queueVars>>

\* getContact resolved: getFormattedNumber is awaited.
MsgContact(m) ==
    /\ msg[m].pc = "getContact"
    /\ msg' = [msg EXCEPT ![m].pc = "getNumber"]
    /\ UNCHANGED <<lifeVars, tracked, qrVars, unreadVars, users, rlCount,
                   window, downloads, jobs, queueVars>>

\* getFormattedNumber resolved: createOrUpdateUser is awaited.
MsgNumber(m) ==
    /\ msg[m].pc = "getNumber"
    /\ msg' = [msg EXCEPT ![m].pc = "upsert"]
    /\ UNCHANGED <<lifeVars, tracked, qrVars, unreadVars, users, rlCount,
                   window, downloads, jobs, queueVars>>

\* createOrUpdateUser resolved: identifyUser, message_received, then the
\* media branch (downloadMedia is awaited) or the link check.
MsgUpserted(m) ==
    /\ msg[m].pc = "upsert"
    /\ users' = CreateOrUpdateUser(users, msg[m].sender)
    /\ tracked' = Inc(tracked, "message_received")
    /\ LET r == [msg[m] EXCEPT !.userId = UserIdOf(users', msg[m].sender)]
       IN IF r.media # "none"
          THEN /\ msg' = [msg EXCEPT ![m] = [r EXCEPT !.pc = "media"]]
               /\ UNCHANGED rlCount
          ELSE LinkCheck(m, r)
    /\ UNCHANGED <<lifeVars, qrVars, unreadVars, window, downloads, jobs, queueVars>>

\* downloadMedia resolved: images are answered with a sticker (stickers.create
\* and message.reply are not awaited), then the link check.
MsgMedia(m) ==
    /\ msg[m].pc = "media"
    /\ LET sticker == IsStickerImage(msg[m].media)
           r == [msg[m] EXCEPT !.nSticker = IF sticker THEN @ + 1 ELSE @,
                               !.pending = IF sticker THEN @ + 2 ELSE @]
       IN /\ tracked' = IF sticker THEN Inc(tracked, "sticker_created") ELSE tracked
          /\ LinkCheck(m, r)
    /\ UNCHANGED <<lifeVars, qrVars, unreadVars, users, window, downloads,
                   jobs, queueVars>>

\* isRatedLimited resolved: a limited sender gets the notice and the handler
\* returns; otherwise downloadRepo.create is awaited.
MsgLimiter(m) ==
    /\ msg[m].pc = "rate"
    /\ LET limited == msg[m].rl = "limited"
       IN /\ msg' = [msg EXCEPT ![m] =
                       [@ EXCEPT !.pc = AfterLimiter(limited),
                                 !.nNotice = IF limited THEN @ + 1 ELSE @,
                                 !.pending = IF limited THEN @ + 1 ELSE @,
                                 !.out = IF limited THEN "limited" ELSE @]]
          /\ tracked' = IF limited THEN Inc(tracked, "rate_limited") ELSE tracked
    /\ UNCHANGED <<lifeVars, qrVars, unreadVars, users, rlCount, window,
                   downloads, jobs, queueVars>>

\* downloadRepo.create resolved: download_requested, addJobToDownloaderQueue.
MsgCreated(m) ==
    /\ msg[m].pc = "create"
    /\ downloads' = Append(downloads,
                           NewDownload(FirstUrl(msg[m].links), msg[m].userId,
                                       msg[m].timestamp))
    /\ tracked' = Inc(tracked, "download_requested")
    /\ jobs' = Append(jobs,
                      [key |-> JobKey(msg[m].timestamp, msg[m].sender),
                       url |-> FirstUrl(msg[m].links),
                       downloadId |-> DownloadId(downloads'),
                       message |-> m])
    /\ msg' = [msg EXCEPT ![m] =
                 [@ EXCEPT !.pc = "done", !.nRec = @ + 1, !.nJob = @ + 1,
                           !.out = "queued"]]
    /\ UNCHANGED <<lifeVars, qrVars, unreadVars, users, rlCount, window, queueVars>>

\* Any awaited call rejected (or downloadMedia gave nothing to destructure):
\* the catch of the handler logs the error and the handler ends.  A limiter
\* call that rejects has reported nothing.
MsgCaught(m) ==
    /\ msg[m].pc \in {"getChat", "getContact", "getNumber", "upsert", "media",
                      "rate", "create"}
    /\ msg' = [msg EXCEPT ![m] =
                 [@ EXCEPT !.pc = "done", !.out = "error",
                           !.rl = IF msg[m].pc = "rate" THEN "none" ELSE @]]
    /\ UNCHANGED <<lifeVars, tracked, qrVars, unreadVars, users, rlCount,
                   window, downloads, jobs, queueVars>>

\* stickers.create or a message.reply of handler m settled.
MsgSettled(m, ok) ==
    /\ msg[m].pending > 0
    /\ msg' = [msg EXCEPT ![m] = Settled(@, ok)]
    /\ UNCHANGED <<lifeVars, tracked, qrVars, unreadVars, users, rlCount,
                   window, downloads, jobs, queueVars>>

\* The Rate Limiter's window rolls over: every identity starts afresh.
WindowRoll ==
    /\ window < MaxWindows
    /\ window' = window + 1
    /\ rlCount' = [s \in Senders |-> 0]
    /\ UNCHANGED <<lifeVars, tracked, qrVars, unreadVars, msg, users,
                   downloads, jobs, queueVars>>

\* The handler steps of a message without media.
MsgLinkStep(m) ==
    MsgChat(m) \/ MsgContact(m) \/ MsgNumber(m) \/ MsgUpserted(m)
    \/ MsgLimiter(m) \/ MsgCreated(m) \/ MsgCaught(m)

MsgStep(m) ==
    MsgChat(m) \/ MsgContact(m) \/ MsgNumber(m) \/ MsgUpserted(m)
    \/ MsgMedia(m) \/ MsgLimiter(m) \/ MsgCreated(m) \/ MsgCaught(m)

\* The link path: messages with one or more links, of several senders.
NextDispatch ==
    \/ Ready
    \/ \E m \in 1..MaxMsgs :
          (\E in \in InboundLinks : MessageEvent(m, in)) \/ MsgLinkStep(m)

SpecDispatch == Init /\ [][NextDispatch]_vars

\* Rate limiting: one-link messages of several senders over several windows.
NextRate ==
    \/ Ready
    \/ \E m \in 1..MaxMsgs :
          (\E in \in InboundLinkOnly : MessageEvent(m, in)) \/ MsgLinkStep(m)
    \/ WindowRoll

SpecRate == Init /\ [][NextRate]_vars

\* The media path: messages with and without media, with and without a link.
NextMedia ==
    \/ Ready
    \/ \E m \in 1..MaxMsgs :
          (\E in \in InboundMedia : MessageEvent(m, in)) \/ MsgStep(m)

SpecMedia == Init /\ [][NextMedia]_vars


\* ----------------------------------------------------- queue: completed
\* Faulty variant of the loop test: the last artifact is skipped.
LoopContinuesShort(index, k) == index + 1 < k

\* for (let index = 0; index < download.length; index++)
LoopContinues(index, k) == index < k

\* Faulty variant of the catch: the try sits inside the loop, so that after
\* a throw the handler still goes on to the status update.
CmpCatchInLoop(r) == [r EXCEPT !.pc = "status", !.threw = TRUE]

\* The catch of the completed handler: error_onQueueMessage is tracked.
CmpCatch(r) == [r EXCEPT !.pc = "done", !.threw = TRUE]

\* Top of the loop with handler record r: MessageMedia.fromFilePath reads
\* the artifact (it throws when the file cannot be read, fileOk = FALSE) and
\* getMessageById is awaited; after the last artifact updateStatusById is.
LoopHead(r, fileOk) ==
    IF LoopContinues(r.index, r.k)
    THEN IF fileOk THEN [r EXCEPT !.pc = "resolve"] ELSE CmpCatch(r)
    ELSE [r EXCEPT !.pc = "status"]

TrackCatch(r) ==
    IF r.threw THEN Inc(tracked, "error_onQueueMessage") ELSE tracked

\* queueService.on(DownloadCompleted): job j completed with k artifacts.
QueueCompleted(e, j, k) ==
    /\ listeners["queue"] > 0
    /\ ev[e].pc = "idle"
    /\ InOrder(ev, e)
    /\ \E fileOk \in BOOLEAN :
         LET r == LoopHead([IdleEv EXCEPT !.type = "completed", !.job = j,
                                          !.k = k], fileOk)
         IN /\ ev' = [ev EXCEPT ![e] = r]
            /\ tracked' = TrackCatch(r)
    /\ UNCHANGED <<lifeVars, qrVars, unreadVars, dispatchVars, errors>>

\* getMessageById resolved: reply(media) is issued (not awaited) and
\* removeFile(path) is awaited.
CmpResolved(e) ==
    /\ ev[e].pc = "resolve"
    /\ ev' = [ev EXCEPT ![e] =
                [@ EXCEPT !.pc = "remove", !.nReply = @ + 1, !.nRemove = @ + 1,
                          !.pending = @ + 1]]
    /\ UNCHANGED <<lifeVars, tracked, qrVars, unreadVars, dispatchVars, errors>>

\* removeFile resolved: download_response, index++, next turn of the loop.
CmpRemoved(e) ==
    /\ ev[e].pc = "remove"
    /\ \E fileOk \in BOOLEAN :
         LET r == LoopHead([ev[e] EXCEPT !.index = @ + 1], fileOk)
         IN /\ ev' = [ev EXCEPT ![e] = r]
            /\ tracked' = Inc(TrackCatch(r), "download_response")
    /\ UNCHANGED <<lifeVars, qrVars, unreadVars, dispatchVars, errors>>

\* updateStatusById(downloadId, SENT) resolved.
CmpStatus(e) ==
    /\ ev[e].pc = "status"
    /\ downloads' = [downloads EXCEPT ![jobs[ev[e].job].downloadId].status = "SENT"]
    /\ ev' = [ev EXCEPT ![e] = [@ EXCEPT !.pc = "done", !.nSent = @ + 1]]
    /\ UNCHANGED <<lifeVars, tracked, qrVars, unreadVars, msg, users, rlCount,
                   window, jobs, errors>>

\* getMessageById, removeFile or updateStatusById rejected, or getMessageById
\* found no message and reply threw: the catch logs and tracks the error.
CmpCaught(e) ==
    /\ ev[e].pc \in {"resolve", "remove", "status"}
    /\ ev' = [ev EXCEPT ![e] = CmpCatch(@)]
    /\ tracked' = Inc(tracked, "error_onQueueMessage")
    /\ UNCHANGED <<lifeVars, qrVars, unreadVars, dispatchVars, errors>>

\* -------------------------------------------------------- queue: failed
\* queueService.on(DownloadFailed): getMessageById is awaited.
QueueFailed(e, j) ==
    /\ listeners["queue"] > 0
    /\ ev[e].pc = "idle"
    /\ InOrder(ev, e)
    /\ ev' = [ev EXCEPT ![e] =
                [IdleEv EXCEPT !.pc = "fresolve", !.type = "failed", !.job = j]]
    /\ UNCHANGED <<lifeVars, tracked, qrVars, unreadVars, dispatchVars, errors>>

\* getMessageById resolved: the apology is sent and createError is called
\* (neither is awaited).
FailResolved(e) ==
    /\ ev[e].pc = "fresolve"
    /\ errors' = Append(errors,
                        [message |-> "error",
                         downloadId |-> jobs[ev[e].job].downloadId])
    /\ ev' = [ev EXCEPT ![e] =
                [@ EXCEPT !.pc = "done", !.nReply = @ + 1, !.nErr = @ + 1,
                          !.pending = @ + 1]]
    /\ UNCHANGED <<lifeVars, tracked, qrVars, unreadVars, dispatchVars>>

\* getMessageById rejected, or it found no message and reply threw: the
\* empty catch swallows the error.
FailCaught(e) ==
    /\ ev[e].pc = "fresolve"
    /\ ev' = [ev EXCEPT ![e] = [@ EXCEPT !.pc = "done", !.threw = TRUE]]
    /\ UNCHANGED <<lifeVars, tracked, qrVars, unreadVars, dispatchVars, errors>>

\* A reply of the handler of event e settled.
EvSettled(e, ok) ==
    /\ ev[e].pending > 0
    /\ ev' = [ev EXCEPT ![e] = Settled(@, ok)]
    /\ UNCHANGED <<lifeVars, tracked, qrVars, unreadVars, dispatchVars, errors>>

QueueStep(e) ==
    \/ \E j \in 1..Len(jobs) :
          (\E k \in 0..MaxArtifacts : QueueCompleted(e, j, k)) \/ QueueFailed(e, j)
    \/ CmpResolved(e) \/ CmpRemoved(e) \/ CmpStatus(e) \/ CmpCaught(e)
    \/ FailResolved(e) \/ FailCaught(e)

\* Queue events for the job that the first link message submits.
NextQueue ==
    \/ Ready
    \/ (\E in \in InboundLinkOnly : MessageEvent(1, in)) \/ MsgLinkStep(1)
    \/ \E e \in 1..MaxEvents : QueueStep(e)

SpecQueue == Init /\ [][NextQueue]_vars

\* A private-chat message of one sender with one link, with or without media.
InboundMediaLink == {i \in InboundMedia : i.nlinks = 1}

\* The first message and the queue events of its job, with the calls that
\* the handlers do not await settling on their own.
NextFloating ==
    \/ Ready
    \/ (\E in \in InboundMediaLink : MessageEvent(1, in)) \/ MsgStep(1)
    \/ \E ok \in BOOLEAN : MsgSettled(1, ok)
    \/ \E e \in 1..MaxEvents :
          QueueStep(e) \/ (\E ok \in BOOLEAN : EvSettled(e, ok))

SpecFloating == Init /\ [][NextFloating]_vars

Signal == Authenticated \/ AuthFailure \/ Disconnected \/ Ready \/ ReadyAgain

QrStep ==
    \E h \in 1..MaxQr :
        QrEvent(h) \/ QrSaved(h) \/ QrRejected(h) \/ QrUpdated(h)
        \/ QrDelivered(h) \/ QrStored(h)

UnreadStep ==
    (\E chats \in ChatStates : UnreadPassDone(chats, UnreadOnly(chats)))
    \/ UnreadPassFailed

\* Passes over chats with longer histories than their unread counts.
UnreadStepWide ==
    (\E chats \in ChatStatesWide, hist \in [Convs -> Histories] :
         UnreadPassDone(chats, hist))
    \/ UnreadPassFailed

\* The reconciliation passes alone: the first pass of ready and the timer's.
NextUnread == Ready \/ TimerTick \/ UnreadStepWide

SpecUnread == Init /\ [][NextUnread]_vars

NextLifecycle == Signal \/ QrStep \/ TimerTick \/ UnreadStep

\* Lifecycle signals against the handlers of link messages.
NextGate ==
    \/ Signal
    \/ \E m \in 1..MaxMsgs :
          (\E in \in InboundAnyChat : MessageEvent(m, in)) \/ MsgLinkStep(m)

SpecGate == Init /\ [][NextGate]_vars

SpecLifecycle == Init /\ [][NextLifecycle]_vars

\* ------------------------------------------------------------------ claims
Msgs == 1..MaxMsgs
Evs == 1..MaxEvents
Finished(m) == msg[m].pc = "done"
JobsOf(m) == {j \in 1..Len(jobs) : jobs[j].message = m}

\* C1 (as stated): every finished handler of a link message whose sender the
\* Rate Limiter reported as not limited has created exactly one Download Job
\* Record and submitted exactly one Queue Job.
C1_AsStated ==
    \A m \in Msgs :
        (Finished(m) /\ msg[m].rl = "ok") => (msg[m].nRec = 1 /\ msg[m].nJob = 1)

\* C1 (amended): for a link message from a private chat whose sender was
\* reported not limited, a handler in which downloadRepo.create resolved has
\* created exactly one record (status UNKNOWN, ownerId the resolved user id,
\* sourceUrl the first link) and submitted exactly one job, keyed
\* timestamp-identity, whose url is the first link and whose downloadId is
\* that record's id; a handler in which create rejected has created no
\* record and submitted no job; links after the first produce neither.
C1_OneRecordOneJob ==
    /\ \A m \in Msgs :
          (Finished(m) /\ msg[m].rl = "ok") =>
             \/ /\ msg[m].out = "queued"
                /\ msg[m].nRec = 1 /\ msg[m].nJob = 1
                /\ Cardinality(JobsOf(m)) = 1
                /\ \A j \in JobsOf(m) :
                      /\ jobs[j].key = <<msg[m].timestamp, msg[m].sender>>
                      /\ jobs[j].url = msg[m].links[1]
                      /\ jobs[j].downloadId \in 1..Len(downloads)
                      /\ downloads[jobs[j].downloadId].sourceUrl = msg[m].links[1]
                      /\ downloads[jobs[j].downloadId].ownerId = msg[m].userId
                      /\ users[msg[m].userId] = msg[m].sender
                      /\ downloads[jobs[j].downloadId].requestedAt = msg[m].timestamp
                      /\ Len(errors) = 0 /\ (\A e \in Evs : ev[e].pc = "idle")
                            => downloads[jobs[j].downloadId].status = "UNKNOWN"
             \/ /\ msg[m].out = "error"
                /\ msg[m].nRec = 0 /\ msg[m].nJob = 0
                /\ JobsOf(m) = {}
    /\ Len(downloads) = Cardinality({m \in Msgs : msg[m].nRec = 1})
    /\ Len(jobs) = Len(downloads)
    /\ \A j, k \in 1..Len(jobs) : jobs[j].downloadId = jobs[k].downloadId => j = k

C1_Witness ==
    \E m \in Msgs :
        /\ Finished(m) /\ msg[m].rl = "ok" /\ msg[m].out = "queued"
        /\ Len(msg[m].links) > 1
        /\ msg[m].kind = "chat"

\* C2: a link message whose sender the Rate Limiter reports as limited gets
\* the rate-limit notice, once, and the handler stops: it creates no
\* Download Job Record and submits no Queue Job.
C2_LimitedStops ==
    \A m \in Msgs :
        msg[m].rl = "limited" =>
            /\ msg[m].pc \in {"rate", "done"}
            /\ msg[m].nRec = 0 /\ msg[m].nJob = 0
            /\ JobsOf(m) = {}
            /\ Finished(m) => (msg[m].nNotice = 1 /\ msg[m].out = "limited")

C2_Witness ==
    \E m \in Msgs :
        /\ Finished(m) /\ msg[m].rl = "limited" /\ msg[m].nNotice = 1
        /\ Len(msg[m].links) > 0

\* C3: a handler creates a record or submits a job only after its own Rate
\* Limiter call for the sender returned not-limited, and no handler answers a
\* sender without that call; so per identity and window at most RateCapacity
\* messages are admitted, and of two link messages of one sender answered in
\* one window of capacity 1 one is admitted and the other gets only the
\* notice and no record.
Admitted(s, w) ==
    {m \in Msgs : msg[m].sender = s /\ msg[m].win = w /\ msg[m].rl = "ok"}

C4_NoLinksNoJob ==
    /\ \A m \in Msgs :
          Len(msg[m].links) = 0 =>
              (msg[m].nRec = 0 /\ msg[m].nJob = 0 /\ msg[m].nRl = 0
               /\ msg[m].pc # "create")
    /\ \A j \in 1..Len(jobs) : Len(msg[jobs[j].message].links) > 0
    /\ Len(downloads) <= Cardinality({m \in Msgs : Len(msg[m].links) > 0})

C4_Witness ==
    /\ \E m \in Msgs :
          /\ Finished(m) /\ msg[m].out = "nolinks"
          /\ msg[m].media = "image/png" /\ msg[m].nSticker = 1
    /\ \E m \in Msgs :
          /\ Finished(m) /\ msg[m].out = "nolinks"
          /\ msg[m].media = "video/mp4" /\ msg[m].nSticker = 0

C6_OneApologyOneError ==
    \A e \in Evs :
        (ev[e].type = "failed" /\ ev[e].pc = "done") =>
            /\ ev[e].nErr = 1
            /\ ~ev[e].threw => ev[e].nReply = 1
            /\ \E i \in 1..Len(errors) :
                  errors[i].downloadId = jobs[ev[e].job].downloadId

\* C7: an auth_failure or disconnected signal notifies the administrative
\* channel, and from then until the next ready signal no step of a message
\* handler calls the Rate Limiter, creates a record, submits a job or replies.
Dispatched ==
    [m \in Msgs |-> <<msg[m].nRl, msg[m].nRec, msg[m].nJob, msg[m].nNotice,
                      msg[m].nSticker>>]

C7_SuppressedUntilReady ==
    [][/\ (signals' # signals /\ lifecycle' \in {"auth_failure", "disconnected"})
            => notified'[lifecycle'] = notified[lifecycle'] + 1
       /\ (suppressed /\ suppressed') => Dispatched' = Dispatched]_vars

\* C8: the first ready signal starts one pass, and a timer tick starts a
\* pass only when the last lifecycle signal was ready.
C8_PassOnlyWhenReady ==
    [][/\ (signals' # signals /\ lifecycle' = "ready" /\ readyArmed)
            => passes' = passes + 1
       /\ (ticks' # ticks /\ lifecycle # "ready") => passes' = passes]_vars

\* C9: when a ready signal arrives while QR prompts are outstanding on the
\* channel, deleteMessage is called exactly once and no prompt is
\* outstanding afterwards.
C9_PromptRetractedOnReady ==
    [][(signals' # signals /\ lifecycle' = "ready" /\ prompts # {})
          => (deleteCalls' = deleteCalls + 1 /\ prompts' = {})]_vars

\* C10: a lifecycle signal equal to the one before it installs no listener
\* or timer and sends no administrative notification.
C10_DuplicateSignalIdempotent ==
    [][(signals' # signals /\ lifecycle' = lifecycle)
          => (listeners' = listeners /\ notified' = notified)]_vars

\* C11: every lifecycle signal that changes the lifecycle state (to
\* authenticated, auth_failure, disconnected or ready) emits exactly one
\* Telemetry event.
TrackedTotal == SumOver(tracked, TelemetryEvents)

C11_OneEventPerTransition ==
    [][(signals' # signals /\ lifecycle' # lifecycle)
          => TrackedTotal' = TrackedTotal + 1]_vars

\* C12: the map a completed pass returned has exactly the chats with
\* unreadCount > 0 as keys, and each entry holds that chat's N most recent
\* messages (N its unreadCount, or the whole history when it is shorter),
\* oldest first.
MostRecent(h, n) == SubSeq(h, IF n < Len(h) THEN Len(h) - n + 1 ELSE 1, Len(h))

C12_IndexMostRecentChronological ==
    /\ DOMAIN unreadMap = {c \in Convs : seen.chats[c] > 0}
    /\ \A c \in DOMAIN unreadMap :
          unreadMap[c] = MostRecent(seen.hist[c], seen.chats[c])

\* C13: after every step unreadChats is the sum of the unreadCounts of all
\* chats that the last completed pass saw; a pass that throws leaves
\* unreadChats as it was; and a timer tick of an authenticated client starts
\* a pass, whatever became of the passes before it.
C13_TotalAfterPass ==
    [][/\ unreadChats' = SumOver(seen'.chats, Convs)
       /\ skipped' # skipped => (unreadChats' = unreadChats /\ seen' = seen)
       /\ (ticks' # ticks /\ isAuthenticated) => passes' = passes + 1]_vars

C13_Witness ==
    /\ skipped >= 1
    /\ passes = ticks + 1 /\ ticks >= 1
    /\ inflight = 0
    /\ unreadChats >= 2
    /\ \A c \in Convs : seen.chats[c] > 0

\* C14: a rejection of a call made by the "message" handler or by the
\* completed handler is caught by that handler: no call that such a
\* handler made has rejected outside its catch.
C14_NoRejectionEscapes ==
    /\ \A m \in Msgs : msg[m].rejected = 0
    /\ \A e \in Evs : ev[e].type = "completed" => ev[e].rejected = 0

\* C15: a finished handler of a message with media and a link, whose sender
\* is not rate limited and whose link path itself did not throw, has created
\* the Download Job Record and submitted the Queue Job, whatever became of
\* the media path.
C15_MediaNeverBlocksLinks ==
    \A m \in Msgs :
        (/\ Finished(m)
         /\ msg[m].media # "none" /\ Len(msg[m].links) > 0
         /\ msg[m].userId # 0
         /\ ~(msg[m].nRl = 1 /\ msg[m].out = "error")
         /\ \/ msg[m].rl = "ok"
            \/ msg[m].rl = "none" /\ ~IsRatedLimited(msg[m].sender))
        => (msg[m].nRec = 1 /\ msg[m].nJob = 1 /\ Cardinality(JobsOf(m)) = 1)

\* C16: a step of the completed handler sets the record's status to SENT
\* only when every artifact of the job has been replied with, each of these
\* replies has completed, none is outstanding or has failed, and every
\* artifact's file has been removed.
C16_SentAfterDelivery ==
    [][\A e \in Evs :
          ev'[e].nSent > ev[e].nSent =>
              /\ ev[e].nReply = ev[e].k /\ ev[e].nRemove = ev[e].k
              /\ ev[e].pending = 0 /\ ev[e].rejected = 0
              /\ ev[e].resolved = ev[e].k]_vars

\* C17: every Download Job Record was created by the handler of an accepted
\* link message and none is deleted; the queue handlers mutate a record at
\* most once in all (its status set to SENT, or an Error record attached,
\* never both and never repeatedly), whatever completed and failed events
\* the queue emits for its job; and a handler in which nothing threw has
\* mutated it.
SentWrites(d) ==
    SumOver([e \in Evs |-> ev[e].nSent],
            {e \in Evs : ev[e].job # 0 /\ jobs[ev[e].job].downloadId = d})

ErrorsOf(d) == {i \in 1..Len(errors) : errors[i].downloadId = d}

C17_RecordMutatedOnce ==
    /\ Len(downloads) = Cardinality({m \in Msgs : msg[m].nRec = 1})
    /\ \A d \in 1..Len(downloads) :
          /\ SentWrites(d) + Cardinality(ErrorsOf(d)) <= 1
          /\ ~(downloads[d].status = "SENT" /\ ErrorsOf(d) # {})
    /\ \A e \in Evs :
          (ev[e].pc = "done" /\ ~ev[e].threw) =>
              SentWrites(jobs[ev[e].job].downloadId)
                + Cardinality(ErrorsOf(jobs[ev[e].job].downloadId)) >= 1

\* C18: at most one QR prompt is outstanding on the channel, and a stored
\* QrCodeMessageId is the id of that prompt, also when "qr" handlers overlap.
C18_OnePromptOutstanding ==
    /\ Cardinality(prompts) <= 1
    /\ QrCodeMessageId # 0 => QrCodeMessageId \in prompts

\* C19: when getMessageById or removeFile throws in the completed handler
\* while it processes artifact i, that step ends the handler and changes no
\* record; the handler has then issued no reply and no removeFile for a
\* later artifact, has not written the status and has created no Error
\* record, and it takes no further step.  The status is still UNKNOWN and
\* the job has no Error record unless the handler of another event of the
\* job wrote them.
HandlerCalls(r) == <<r.pc, r.index, r.nReply, r.nRemove, r.nSent, r.nErr>>

C19_ThrowStopsHandler ==
    [][\A e \in Evs :
          /\ (/\ ev[e].type = "completed" /\ ev[e].pc \in {"resolve", "remove"}
              /\ ev'[e].threw /\ ev'[e].index = ev[e].index)
             => /\ ev'[e] = [ev[e] EXCEPT !.pc = "done", !.threw = TRUE]
                /\ downloads' = downloads
                /\ errors' = errors
          /\ (ev[e].type = "completed" /\ ev[e].threw)
             => HandlerCalls(ev'[e]) = HandlerCalls(ev[e])
          /\ (ev'[e].type = "completed" /\ ev'[e].threw /\ ev'[e].index < ev'[e].k)
             => /\ ev'[e].pc = "done"
                /\ ev'[e].nSent = 0 /\ ev'[e].nErr = 0
                /\ ev'[e].nReply <= ev'[e].index + 1
                /\ ev'[e].nRemove = ev'[e].nReply
                /\ (\A f \in Evs : ev'[f].job = ev'[e].job => ev'[f].nSent = 0)
                      => downloads'[jobs'[ev'[e].job].downloadId].status = "UNKNOWN"
                /\ (\A f \in Evs : ev'[f].job = ev'[e].job => ev'[f].nErr = 0)
                      => \A i \in 1..Len(errors') :
                            errors'[i].downloadId # jobs'[ev'[e].job].downloadId]_vars

C19_Witness ==
    \E e \in Evs :
        /\ ev[e].type = "completed" /\ ev[e].pc = "done" /\ ev[e].threw
        /\ ev[e].k = 2 /\ ev[e].index = 0 /\ ev[e].nReply = 1
        /\ downloads[jobs[ev[e].job].downloadId].status = "UNKNOWN"
        /\ errors = <<>>

\* C20: every submitted Queue Job carries the id of a Download Job Record
\* that exists and that the same handler invocation created, with the job's
\* url; a handler in which the creation of the record failed has submitted
\* no job.
C20_JobReferencesRecord ==
    /\ \A j \in 1..Len(jobs) :
          /\ jobs[j].downloadId \in 1..Len(downloads)
          /\ downloads[jobs[j].downloadId].sourceUrl = jobs[j].url
          /\ downloads[jobs[j].downloadId].requestedAt = msg[jobs[j].message].timestamp
          /\ downloads[jobs[j].downloadId].ownerId = msg[jobs[j].message].userId
          /\ msg[jobs[j].message].nRec = 1
    /\ \A m \in Msgs : msg[m].nRec = 0 => (msg[m].nJob = 0 /\ JobsOf(m) = {})
    /\ Len(jobs) <= Len(downloads)

C20_Witness ==
    \E m, n \in Msgs :
        /\ msg[m].out = "queued" /\ JobsOf(m) # {}
        /\ msg[n].out = "error" /\ msg[n].nRl = 1 /\ msg[n].rl = "ok"
        /\ JobsOf(n) = {}

====
